---------------------------- MODULE Spec2Model ----------------------------
(***************************************************************************)
(* StargateBridgeHelper.make_bridge (src/stargate/stargate.py) as a state  *)
(* machine.  One run of make_bridge is one behaviour: the constructor      *)
(* arguments are fixed in Init, every call to the EVMNetwork collaborator  *)
(* is one step whose return value is drawn from a small set, and the       *)
(* program counter pc records the position inside make_bridge.             *)
(*                                                                         *)
(* The code contains no try/except, so an exception raised by a read-only  *)
(* collaborator call (an RPC error) leaves make_bridge at once; the action *)
(* Fault models that.                                                      *)
(*                                                                         *)
(* slippage is a Python float.  It is modelled as an IEEE-754 binary64     *)
(* value (53 significant bits, given as a bit sequence because the product *)
(* does not fit an integer of TLC), and amount * slippage   *)
(* is the correctly rounded binary64 product, as CPython computes it.      *)
(***************************************************************************)
EXTENDS Integers, Sequences, FiniteSets, TLC

\* ------------------------------------------------------------------ bounds
MaxAmount == 3          \* amounts of Spec: 1..MaxAmount
MaxSlipNum == 2         \* slippages of Spec: 0/SlipDen .. MaxSlipNum/SlipDen
SlipDen == 50           \* slippage is given in steps of 1/SlipDen
MaxSlipAmount == 50     \* amounts of SpecSlippage: 1..MaxSlipAmount
MaxNative == 5          \* native balance read: 0..MaxNative
MaxApproveGas == 2      \* approve gas limit read: 1..MaxApproveGas
MaxGasPrice == 2        \* current gas price read: 1..MaxGasPrice
MaxFee == 1             \* LayerZero fee quoted: 0..MaxFee
Slack == 1              \* token balance and allowance read: amount-Slack..amount+Slack
MaxNonce == 0           \* nonce read: 0..MaxNonce

\* --------------------------------------------------- program constants
\* StargateConstants.get_max_randomized_swap_gas_limit(network.name)
MaxRandomizedSwapGasLimit == 2
\* significant bits of a Python float (IEEE-754 binary64)
MantissaBits == 53

Unread == 0 - 1
SrcRouter == "src_network.stargate_router_address"
DstRouter == "dst_network.stargate_router_address"
SrcToken == "src_stablecoin.contract_address"

\* TransactionStatus
NOT_FOUND == "NOT_FOUND"
FAILED == "FAILED"
SUCCESS == "SUCCESS"
TransactionStatus == {NOT_FOUND, FAILED, SUCCESS}

VARIABLES
    amount,             \* self.amount
    slipNum,            \* the decimal slippage the caller means is slipNum/SlipDen
    slippage,           \* self.slippage: the binary64 nearest to slipNum/SlipDen
    pc,                 \* position in make_bridge
    account_balance,    \* locals of is_enough_native_token_balance_for_stargate_swap_fee
    approve_gas_limit,
    current_gas,
    layerzero_fee,
    enough,             \* its return value: "unset", "True" or "False"
    stablecoin_balance, \* local of _is_bridge_possible
    allowance,          \* local of _approve_stablecoin_usage
    approveCalls,       \* approve_token_usage calls made, in order
    swapTxs,            \* swap transactions sent with send_raw_transaction, in order
    waitCalls,          \* wait_for_transaction calls made, in order
    approve_result,     \* polled status of the approval transaction
    swap_result,        \* polled status of the swap transaction
    swap_fee,           \* layerzero_fee local of _send_swap_transaction
    nonce,              \* nonce local of _send_swap_transaction
    outcome,            \* how make_bridge ended
    failedAt            \* the position whose collaborator call raised

vars == <<amount, slipNum, slippage, pc, account_balance, approve_gas_limit,
          current_gas, layerzero_fee, enough, stablecoin_balance, allowance,
          approveCalls, swapTxs, waitCalls, approve_result, swap_result,
          swap_fee, nonce, outcome, failedAt>>

\* ------------------------------------------------ Python float arithmetic
\* The 53-bit significand of a float is too wide for the integers of TLC:
\* it is held as three digits <<top, mid, low>> in base Limb (17 + 18 + 18
\* bits), the number top * Limb^2 + mid * Limb + low.
Limb == 2 ^ 18
TopLimb == 2 ^ (MantissaBits - 36)

RECURSIVE BitLen(_)
BitLen(n) == IF n = 0 THEN 0 ELSE 1 + BitLen(n \div 2)

\* number of zero bits of r/d between the binary point and its first 1 bit
RECURSIVE LeadingZeros(_, _)
LeadingZeros(r, d) == IF 2 * r >= d THEN 0 ELSE 1 + LeadingZeros(2 * r, d)

\* A float in [0, 1) is [top, mid, low, exp]: the number
\* (top * Limb^2 + mid * Limb + low) / 2^exp, with TopLimb/2 <= top < TopLimb
\* unless it is zero.
FloatZero == [top |-> 0, mid |-> 0, low |-> 0, exp |-> MantissaBits]

\* The float that the decimal fraction p/d (0 <= p < d) denotes: the binary64
\* nearest to p/d, ties to even, as float("0.58") or 29/50 gives in CPython.
\* Long division yields the first 53 significant bits, the next bit (guard)
\* and whether anything follows it (rem).
FloatOfRatio(p, d) ==
    IF p = 0 THEN FloatZero
    ELSE LET z == LeadingZeros(p, d)
             r == p * (2 ^ z)
             top == (r * TopLimb) \div d
             r2 == (r * TopLimb) % d
             mid == (r2 * Limb) \div d
             r1 == (r2 * Limb) % d
             low == (r1 * Limb) \div d
             r0 == (r1 * Limb) % d
             guard == (2 * r0) \div d
             rem == (2 * r0) % d
             up == guard = 1 /\ (rem # 0 \/ low % 2 = 1)
             low1 == IF up THEN (low + 1) % Limb ELSE low
             c1 == IF up /\ low + 1 = Limb THEN 1 ELSE 0
             mid1 == (mid + c1) % Limb
             c2 == IF mid + c1 = Limb THEN 1 ELSE 0
             top1 == top + c2
         IN  IF top1 = TopLimb
             THEN [top |-> TopLimb \div 2, mid |-> 0, low |-> 0,
                   exp |-> z + MantissaBits - 1]
             ELSE [top |-> top1, mid |-> mid1, low |-> low1,
                   exp |-> z + MantissaBits]

\* int(n * f) of CPython for an int 0 <= n < 2^12 (a float exactly) and a float
\* f in [0, 1).  The exact product P = n * significand is up to 12 bits too
\* wide; it is rounded to 53 significant bits, ties to even, by dropping its k
\* lowest bits (all in the lowest digit), and int() drops the fraction of the
\* rounded product, which is what is left of its top digit.
IntOfProduct(n, f) ==
    LET p0 == n * f.low
        r0 == p0 % Limb
        p1 == n * f.mid + p0 \div Limb
        r1 == p1 % Limb
        top == n * f.top + p1 \div Limb
        k == BitLen(top) - (MantissaBits - 36)
        guard == (r0 \div (2 ^ (k - 1))) % 2
        sticky == r0 % (2 ^ (k - 1)) # 0
        lsb == (r0 \div (2 ^ k)) % 2
        up == k >= 1 /\ guard = 1 /\ (sticky \/ lsb = 1)
        carry == IF up /\ r0 \div (2 ^ k) = Limb \div (2 ^ k) - 1 /\ r1 = Limb - 1
                 THEN 1 ELSE 0
        drop == f.exp - 36
    IN  IF top = 0 \/ drop > 30 THEN 0 ELSE (top + carry) \div (2 ^ drop)


\* ------------------------------------------------------------- StargateUtils

\* estimate_swap_gas_price: (max randomized swap gas limit + approve gas limit)
\* * current gas price
estimate_swap_gas_price(approve_gas, gas) ==
    (MaxRandomizedSwapGasLimit + approve_gas) * gas

\* mutant: the comparison lets equality pass
is_enough_native_token_balance_ge(balance, gas_price, fee) ==
    balance >= (gas_price + fee)

\* is_enough_native_token_balance_for_stargate_swap_fee, once its reads are in
is_enough_native_token_balance(balance, gas_price, fee) ==
    balance > (gas_price + fee)

\* ------------------------------------------------------ StargateBridgeHelper

\* mutant: the two errors are exchanged
check_tx_result_swapped(result) ==
    IF result = NOT_FOUND THEN "TransactionFailed"
    ELSE IF result = FAILED THEN "TransactionNotFound"
    ELSE "pass"

\* mutant: a transaction that was not found is not reported
check_tx_result_not_found_passes(result) ==
    IF result = FAILED THEN "TransactionFailed" ELSE "pass"

\* mutant: a failed transaction is not reported
check_tx_result_failed_passes(result) ==
    IF result = NOT_FOUND THEN "TransactionNotFound" ELSE "pass"

\* _check_tx_result: the exception it raises, or "pass" when it returns
check_tx_result(result) ==
    IF result = NOT_FOUND THEN "TransactionNotFound"
    ELSE IF result = FAILED THEN "TransactionFailed"
    ELSE "pass"

\* mutant: off by one, a balance one short of the amount is accepted
is_stablecoin_short_off_by_one(balance, amt) == balance + 1 < amt

\* _is_bridge_possible, second test: stablecoin_balance < self.amount rejects
is_stablecoin_short(balance, amt) == balance < amt

\* mutant: an allowance equal to the amount is approved again
is_allowance_enough_strict(allow, amt) == allow > amt

\* _approve_stablecoin_usage: allowance >= amount returns without a transaction
is_allowance_enough(allow, amt) == allow >= amt

\* mutant: the destination network's router is approved
approve_call_dst_router(amt) ==
    [token |-> SrcToken, spender |-> DstRouter, amount |-> amt]

\* the arguments of approve_token_usage in _approve_stablecoin_usage
approve_call(amt) == [token |-> SrcToken, spender |-> SrcRouter, amount |-> amt]

\* amount_with_slippage = self.amount - int(self.amount * self.slippage)
amount_with_slippage(amt, slip) == amt - IntOfProduct(amt, slip)

\* the swap(...) call built, signed and sent by _send_swap_transaction
swap_tx(amt, slip, fee, n) ==
    [router |-> SrcRouter, qty |-> amt, min_qty |-> amount_with_slippage(amt, slip),
     value |-> fee, nonce |-> n]

\* mutant: the exception is swallowed and False is returned
swallowed(error) == "False"

\* An exception of a collaborator call is not caught anywhere in the file: it
\* ends make_bridge, which raises it to its caller.
uncaught(error) == error

\* values a token balance or allowance read may return, around amt
TokenValues(amt) == {v \in (amt - Slack)..(amt + Slack) : v >= 0}

\* mutant: a swap that was not found is sent again
after_swap_check_retry(st) ==
    IF st = NOT_FOUND THEN "swap_quoteLayerZeroFee" ELSE "done"

\* where make_bridge goes after _check_tx_result of the swap: nowhere, the
\* call is its last statement, whatever the status
after_swap_check(st) == "done"

\* positions of make_bridge at which the next step is a read-only call of a
\* collaborator (EVMNetwork or the router contract)
NativeCheckPcs == {"get_balance", "get_approve_gas_limit", "get_current_gas",
                   "quoteLayerZeroFee"}
WaitPcs == {"wait_approve", "wait_swap"}
ReadPcs == NativeCheckPcs \cup WaitPcs \cup
           {"get_token_balance", "get_token_allowance", "swap_quoteLayerZeroFee",
            "get_nonce", "get_transaction_gas_params"}

\* __init__ with amount in 1..maxAmt and slippage num/SlipDen, num in 0..maxNum
InitWith(maxAmt, maxNum) ==
    /\ amount \in 1..maxAmt
    /\ slipNum \in 0..maxNum
    /\ slippage = FloatOfRatio(slipNum, SlipDen)
    /\ pc = "get_balance"
    /\ account_balance = Unread
    /\ approve_gas_limit = Unread
    /\ current_gas = Unread
    /\ layerzero_fee = Unread
    /\ enough = "unset"
    /\ stablecoin_balance = Unread
    /\ allowance = Unread
    /\ approveCalls = <<>>
    /\ swapTxs = <<>>
    /\ waitCalls = <<>>
    /\ approve_result = "none"
    /\ swap_result = "none"
    /\ swap_fee = Unread
    /\ nonce = Unread
    /\ outcome = "running"
    /\ failedAt = "none"

Init == InitWith(MaxAmount, MaxSlipNum)

InitSlippage == InitWith(MaxSlipAmount, SlipDen - 1)

\* src_network.get_balance(address)
get_balance ==
    /\ pc = "get_balance"
    /\ \E v \in 0..MaxNative : account_balance' = v
    /\ pc' = "get_approve_gas_limit"
    /\ UNCHANGED <<amount, slipNum, slippage, approve_gas_limit, current_gas,
                   layerzero_fee, enough, stablecoin_balance, allowance,
                   approveCalls, swapTxs, waitCalls, approve_result, swap_result,
                   swap_fee, nonce, outcome, failedAt>>

\* network.get_approve_gas_limit() in estimate_swap_gas_price
get_approve_gas_limit ==
    /\ pc = "get_approve_gas_limit"
    /\ \E v \in 1..MaxApproveGas : approve_gas_limit' = v
    /\ pc' = "get_current_gas"
    /\ UNCHANGED <<amount, slipNum, slippage, account_balance, current_gas,
                   layerzero_fee, enough, stablecoin_balance, allowance,
                   approveCalls, swapTxs, waitCalls, approve_result, swap_result,
                   swap_fee, nonce, outcome, failedAt>>

\* network.get_current_gas() in estimate_swap_gas_price
get_current_gas ==
    /\ pc = "get_current_gas"
    /\ \E v \in 1..MaxGasPrice : current_gas' = v
    /\ pc' = "quoteLayerZeroFee"
    /\ UNCHANGED <<amount, slipNum, slippage, account_balance, approve_gas_limit,
                   layerzero_fee, enough, stablecoin_balance, allowance,
                   approveCalls, swapTxs, waitCalls, approve_result, swap_result,
                   swap_fee, nonce, outcome, failedAt>>

\* estimate_layerzero_swap_fee in the native balance check, the comparison
\* that follows it, and the first test of _is_bridge_possible: make_bridge
\* returns False when the native balance is not enough
quoteLayerZeroFee ==
    /\ pc = "quoteLayerZeroFee"
    /\ \E v \in 0..MaxFee :
        LET ok == is_enough_native_token_balance(
                      account_balance,
                      estimate_swap_gas_price(approve_gas_limit, current_gas), v)
        IN  /\ layerzero_fee' = v
            /\ enough' = IF ok THEN "True" ELSE "False"
            /\ pc' = IF ok THEN "get_token_balance" ELSE "done"
            /\ outcome' = IF ok THEN outcome ELSE "False"
    /\ UNCHANGED <<amount, slipNum, slippage, account_balance, approve_gas_limit,
                   current_gas, stablecoin_balance, allowance, approveCalls,
                   swapTxs, waitCalls, approve_result, swap_result, swap_fee,
                   nonce, failedAt>>

\* src_network.get_token_balance(...) and the second test of
\* _is_bridge_possible
get_token_balance ==
    /\ pc = "get_token_balance"
    /\ \E v \in TokenValues(amount) :
        /\ stablecoin_balance' = v
        /\ pc' = IF is_stablecoin_short(v, amount) THEN "done"
                 ELSE "get_token_allowance"
        /\ outcome' = IF is_stablecoin_short(v, amount) THEN "False" ELSE outcome
    /\ UNCHANGED <<amount, slipNum, slippage, account_balance, approve_gas_limit,
                   current_gas, layerzero_fee, enough, allowance, approveCalls,
                   swapTxs, waitCalls, approve_result, swap_result, swap_fee,
                   nonce, failedAt>>

\* src_network.get_token_allowance(...) and the test of
\* _approve_stablecoin_usage
get_token_allowance ==
    /\ pc = "get_token_allowance"
    /\ \E v \in TokenValues(amount) :
        /\ allowance' = v
        /\ pc' = IF is_allowance_enough(v, amount) THEN "swap_quoteLayerZeroFee"
                 ELSE "approve_token_usage"
    /\ UNCHANGED <<amount, slipNum, slippage, account_balance, approve_gas_limit,
                   current_gas, layerzero_fee, enough, stablecoin_balance,
                   approveCalls, swapTxs, waitCalls, approve_result, swap_result,
                   swap_fee, nonce, outcome, failedAt>>

\* src_network.approve_token_usage(key, token, router, amount)
approve_token_usage ==
    /\ pc = "approve_token_usage"
    /\ approveCalls' = Append(approveCalls, approve_call(amount))
    /\ pc' = "wait_approve"
    /\ UNCHANGED <<amount, slipNum, slippage, account_balance, approve_gas_limit,
                   current_gas, layerzero_fee, enough, stablecoin_balance,
                   allowance, swapTxs, waitCalls, approve_result, swap_result,
                   swap_fee, nonce, outcome, failedAt>>

\* wait_for_transaction(tx_hash) of the approval, then _check_tx_result
wait_for_approve ==
    /\ pc = "wait_approve"
    /\ \E st \in TransactionStatus :
        /\ approve_result' = st
        /\ pc' = IF check_tx_result(st) = "pass" THEN "swap_quoteLayerZeroFee"
                 ELSE "done"
        /\ outcome' = IF check_tx_result(st) = "pass" THEN outcome
                      ELSE check_tx_result(st)
    /\ waitCalls' = Append(waitCalls, "approve")
    /\ UNCHANGED <<amount, slipNum, slippage, account_balance, approve_gas_limit,
                   current_gas, layerzero_fee, enough, stablecoin_balance,
                   allowance, approveCalls, swapTxs, swap_result, swap_fee,
                   nonce, failedAt>>

\* estimate_layerzero_swap_fee in _send_swap_transaction
swap_quoteLayerZeroFee ==
    /\ pc = "swap_quoteLayerZeroFee"
    /\ \E v \in 0..MaxFee : swap_fee' = v
    /\ pc' = "get_nonce"
    /\ UNCHANGED <<amount, slipNum, slippage, account_balance, approve_gas_limit,
                   current_gas, layerzero_fee, enough, stablecoin_balance,
                   allowance, approveCalls, swapTxs, waitCalls, approve_result,
                   swap_result, nonce, outcome, failedAt>>

\* src_network.get_nonce(address)
get_nonce ==
    /\ pc = "get_nonce"
    /\ \E v \in 0..MaxNonce : nonce' = v
    /\ pc' = "get_transaction_gas_params"
    /\ UNCHANGED <<amount, slipNum, slippage, account_balance, approve_gas_limit,
                   current_gas, layerzero_fee, enough, stablecoin_balance,
                   allowance, approveCalls, swapTxs, waitCalls, approve_result,
                   swap_result, swap_fee, outcome, failedAt>>

\* the rest of _send_swap_transaction: get_transaction_gas_params, the
\* slippage computation, build_transaction, sign_transaction and
\* send_raw_transaction
send_swap_transaction ==
    /\ pc = "get_transaction_gas_params"
    /\ swapTxs' = Append(swapTxs, swap_tx(amount, slippage, swap_fee, nonce))
    /\ pc' = "wait_swap"
    /\ UNCHANGED <<amount, slipNum, slippage, account_balance, approve_gas_limit,
                   current_gas, layerzero_fee, enough, stablecoin_balance,
                   allowance, approveCalls, waitCalls, approve_result,
                   swap_result, swap_fee, nonce, outcome, failedAt>>

\* wait_for_transaction(tx_hash) of the swap, then _check_tx_result; on
\* success make_bridge falls off its end and returns None
wait_for_swap ==
    /\ pc = "wait_swap"
    /\ \E st \in TransactionStatus :
        /\ swap_result' = st
        /\ outcome' = IF check_tx_result(st) = "pass" THEN "None"
                      ELSE check_tx_result(st)
        /\ pc' = after_swap_check(st)
    /\ waitCalls' = Append(waitCalls, "swap")
    /\ UNCHANGED <<amount, slipNum, slippage, account_balance, approve_gas_limit,
                   current_gas, layerzero_fee, enough, stablecoin_balance,
                   allowance, approveCalls, swapTxs, approve_result, swap_fee,
                   nonce, failedAt>>

\* a read-only collaborator call raises (RPC error): nothing catches it
Fault ==
    /\ pc \in ReadPcs
    /\ failedAt' = pc
    /\ outcome' = uncaught("RpcError")
    /\ waitCalls' = IF pc = "wait_approve" THEN Append(waitCalls, "approve")
                    ELSE IF pc = "wait_swap" THEN Append(waitCalls, "swap")
                    ELSE waitCalls
    /\ pc' = "done"
    /\ UNCHANGED <<amount, slipNum, slippage, account_balance, approve_gas_limit,
                   current_gas, layerzero_fee, enough, stablecoin_balance,
                   allowance, approveCalls, swapTxs, approve_result, swap_result,
                   swap_fee, nonce>>

Next ==
    \/ get_balance
    \/ get_approve_gas_limit
    \/ get_current_gas
    \/ quoteLayerZeroFee
    \/ get_token_balance
    \/ get_token_allowance
    \/ approve_token_usage
    \/ wait_for_approve
    \/ swap_quoteLayerZeroFee
    \/ get_nonce
    \/ send_swap_transaction
    \/ wait_for_swap
    \/ Fault

Spec == Init /\ [][Next]_vars

SpecSlippage == InitSlippage /\ [][Next]_vars


\* ------------------------------------------------------------------ claims

\* gasCost + relayFee as the native balance check of this run computed it
NativeCost ==
    (MaxRandomizedSwapGasLimit + approve_gas_limit) * current_gas + layerzero_fee

\* the native balance check has made all its reads
NativeChecked == layerzero_fee # Unread

\* number of wait_for_transaction calls made for the transaction called name
Polls(name) == Cardinality({i \in 1..Len(waitCalls) : waitCalls[i] = name})

\* C1: when the native balance read is not greater than the gas cost plus the
\* relay fee, or the stablecoin balance read is less than the amount,
\* make_bridge has returned False: it raised nothing, made no approval and no
\* swap, polled nothing and never read the allowance.
C1_RejectedIssuesNothing ==
    ( \/ (NativeChecked /\ account_balance <= NativeCost)
      \/ (stablecoin_balance # Unread /\ stablecoin_balance < amount) )
    => /\ outcome = "False"
       /\ pc = "done"
       /\ approveCalls = <<>>
       /\ swapTxs = <<>>
       /\ waitCalls = <<>>
       /\ allowance = Unread
       /\ failedAt = "none"

\* C1 witness: the native check passed, the stablecoin balance is one short of
\* the amount, and make_bridge returned False
C1_Witness ==
    /\ enough = "True"
    /\ stablecoin_balance = amount - 1
    /\ outcome = "False"

\* C2: the native balance check returns false whenever balance <= gasCost +
\* relayFee and true otherwise, with gasCost = (max randomized swap gas limit
\* + approval gas limit) * current gas price.
C2_NativeBalanceCheck ==
    NativeChecked =>
        /\ account_balance <= NativeCost => enough = "False"
        /\ account_balance > NativeCost => enough = "True"

\* C2 witness: the balance equals gasCost + relayFee and the check said false
C2_Witness ==
    /\ NativeChecked
    /\ account_balance = NativeCost
    /\ enough = "False"

\* C3 as claimed: when a collaborator call of the native balance check fails,
\* the check returns false and make_bridge returns False; nothing is raised.
C3_FailsSilently ==
    failedAt \in NativeCheckPcs => outcome = "False"

\* C3 amended: when a collaborator call of the native balance check fails,
\* the error leaves the check and make_bridge (it is raised to the caller), the
\* check returns nothing and nothing is sent; the check returns false only
\* after all four reads, when balance <= gasCost + relayFee.
C3_FaultPropagates ==
    /\ failedAt \in NativeCheckPcs =>
          /\ outcome = "RpcError"
          /\ enough = "unset"
          /\ pc = "done"
          /\ approveCalls = <<>> /\ swapTxs = <<>>
    /\ enough = "False" => NativeChecked /\ account_balance <= NativeCost

\* C3 witness: the fee quote of the native balance check raised
C3_Witness ==
    /\ failedAt = "quoteLayerZeroFee"
    /\ account_balance # Unread
    /\ outcome = "RpcError"

\* C4: with allowance >= amount (equality included) _approve_stablecoin_usage
\* makes no approve_token_usage call and no wait_for_transaction call and
\* returns to make_bridge, which goes on to the swap; with allowance < amount
\* it makes exactly one approval, of the amount, for the source router.
C4_ApprovalOnlyWhenNeeded ==
    /\ (allowance # Unread /\ allowance >= amount) =>
          /\ approveCalls = <<>>
          /\ Polls("approve") = 0
          /\ approve_result = "none"
          /\ pc \notin {"approve_token_usage", "wait_approve"}
          /\ (swap_fee = Unread /\ failedAt = "none") => pc = "swap_quoteLayerZeroFee"
    /\ (allowance # Unread /\ allowance < amount /\ pc # "approve_token_usage") =>
          approveCalls = << [token |-> SrcToken, spender |-> SrcRouter,
                             amount |-> amount] >>
    /\ pc = "approve_token_usage" => approveCalls = <<>>

\* C4 witness: both cases are decided by states like these; the one named is
\* an approval made because the allowance was one short
C4_Witness ==
    /\ allowance = amount - 1
    /\ Len(approveCalls) = 1
    /\ approve_result = SUCCESS

\* C5: an approval polled Failed raises TransactionFailed, one polled NotFound
\* raises TransactionNotFound; make_bridge ends with that error and the swap
\* is never built (its fee is not even quoted), signed or sent.
C5_ApprovalFailureAborts ==
    /\ approve_result = FAILED => outcome = "TransactionFailed"
    /\ approve_result = NOT_FOUND => outcome = "TransactionNotFound"
    /\ approve_result \in {FAILED, NOT_FOUND} =>
          /\ pc = "done"
          /\ swapTxs = <<>>
          /\ swap_fee = Unread /\ nonce = Unread
          /\ Polls("swap") = 0

\* C5 witness: the approval was polled Failed and TransactionFailed was raised
C5_Witness ==
    /\ approve_result = FAILED
    /\ outcome = "TransactionFailed"
    /\ Len(approveCalls) = 1

\* C6: after the swap is sent, its polled status decides the outcome: NotFound
\* raises TransactionNotFound, Failed raises TransactionFailed, and nothing
\* runs after either (one swap, one poll of it, no step enabled); once a swap
\* is sent make_bridge never returns False.
C6_SwapStatusDecides ==
    /\ swap_result = NOT_FOUND => outcome = "TransactionNotFound"
    /\ swap_result = FAILED => outcome = "TransactionFailed"
    /\ swap_result \in {NOT_FOUND, FAILED} =>
          /\ pc = "done"
          /\ ~ ENABLED Next
          /\ Len(swapTxs) = 1
          /\ Polls("swap") = 1
    /\ swapTxs # <<>> => outcome # "False"

\* C6 witness: the swap was polled NotFound and TransactionNotFound was raised
C6_Witness ==
    /\ swap_result = NOT_FOUND
    /\ outcome = "TransactionNotFound"

\* C7: with native balance > gasCost + relayFee, stablecoin balance >= amount,
\* allowance >= amount and the swap polled Success, make_bridge made no
\* approval, sent exactly one swap and completed: it returned (None), raising
\* nothing and not returning False.
C7_EndToEndSuccess ==
    ( /\ NativeChecked /\ account_balance > NativeCost
      /\ stablecoin_balance # Unread /\ stablecoin_balance >= amount
      /\ allowance # Unread /\ allowance >= amount
      /\ swap_result = SUCCESS )
    => /\ outcome = "None"
       /\ pc = "done"
       /\ approveCalls = <<>>
       /\ Polls("approve") = 0
       /\ Len(swapTxs) = 1
       /\ Polls("swap") = 1
       /\ failedAt = "none"

\* C7 witness: the scenario of the claim at its boundaries, stablecoin balance
\* = amount and allowance = amount, the swap polled Success
C7_Witness ==
    /\ enough = "True"
    /\ stablecoin_balance = amount
    /\ allowance = amount
    /\ swap_result = SUCCESS
    /\ outcome = "None"

C9_NoRetry ==
    /\ Len(approveCalls) <= 1
    /\ Len(swapTxs) <= 1
    /\ (pc = "wait_swap" \/ swap_result # "none") => Len(swapTxs) = 1
    /\ Polls("approve") = IF pc = "wait_approve" THEN 0 ELSE Len(approveCalls)
    /\ Polls("swap") = IF pc = "wait_swap" THEN 0 ELSE Len(swapTxs)
    /\ Len(waitCalls) = Polls("approve") + Polls("swap")

\* C9 witness: an approval and a swap were made, each polled once, and the
\* swap failed
C9_Witness ==
    /\ Len(approveCalls) = 1
    /\ Len(swapTxs) = 1
    /\ waitCalls = <<"approve", "swap">>
    /\ swap_result = FAILED
    /\ pc = "done"

\* C10: the swap step is reached, and a swap is sent, only after the
\* feasibility check passed (native balance > gasCost + relayFee, stablecoin
\* balance >= amount) and after the allowance was read as >= amount or one
\* approval was made and polled Success; never while an approval is unpolled.
C10_StepsInOrder ==
    ( \/ swapTxs # <<>>
      \/ pc \in {"swap_quoteLayerZeroFee", "get_nonce",
                 "get_transaction_gas_params", "wait_swap"} )
    => /\ enough = "True"
       /\ NativeChecked /\ account_balance > NativeCost
       /\ stablecoin_balance # Unread /\ stablecoin_balance >= amount
       /\ allowance # Unread
       /\ \/ allowance >= amount /\ approveCalls = <<>>
          \/ /\ allowance < amount
             /\ Len(approveCalls) = 1
             /\ Polls("approve") = 1
             /\ approve_result = SUCCESS
       /\ Len(waitCalls) >= Len(approveCalls)

\* C10 witness: a swap sent after an approval that was polled Success
C10_Witness ==
    /\ swapTxs # <<>>
    /\ Len(approveCalls) = 1
    /\ approve_result = SUCCESS
    /\ waitCalls[1] = "approve"


=============================================================================
